---------------------------- MODULE Spec2Model ----------------------------
(***************************************************************************)
(* A model of crypto_scraper.py: the RemoteOK crypto job scraper.          *)
(*                                                                         *)
(* One invocation of the script is one run of main(): module-level         *)
(* configuration, fetch, match_jobs, save_jobs (the CSV ledger), one       *)
(* send_telegram_message per new job, then the last-run file.              *)
(*                                                                         *)
(* Three specifications share the variables:                               *)
(*   Spec        the whole script, run after run;                          *)
(*   SpecLedger  save_jobs alone, called again and again on one CSV file;  *)
(*   SpecPure    match_jobs (with safe_parse_date) on one raw posting.     *)
(*                                                                         *)
(* Python values are records [k, s, n]: None, a str (its characters, or a  *)
(* tagged body for timestamps and identifiers), or an int.  Instants are   *)
(* integers counted in days since the epoch, so that max_age_days = 1 is   *)
(* one unit.                                                               *)
(*                                                                         *)
(* The file system is taken to work: pd.read_csv, to_csv and the write of  *)
(* last_run.txt succeed, so the except branches of save_jobs and of main's *)
(* last lines are not taken.  Cells other than job_id are texts that a CSV *)
(* round trip returns unchanged.  sort_values keeps rows of equal epoch in *)
(* their order.                                                            *)
(***************************************************************************)
EXTENDS Integers, Sequences, FiniteSets, TLC

VARIABLES
    pc,          \* where the script is: idle, notify, done, crashed, ...
    env,         \* os.environ of the invocation
    send,        \* SEND_TELEGRAM after the module-level safety check
    now,         \* datetime.now(timezone.utc) of the run
    jobs,        \* what fetch_remoteok_raw returned
    matched,     \* what match_jobs returned (save_jobs' argument)
    new_jobs,    \* what save_jobs returned
    sent_upto,   \* how many of new_jobs main's notification loop has passed
    csv,         \* remoteok_crypto_jobs.csv
    csv0,        \* the CSV file as it was when the run (or call) began
    cursor,      \* last_run.txt: the instant written, NoCursor if absent
    cursor0,     \* last_run.txt as it was when the run began
    attempts,    \* str(job_id) of each send_telegram_message call of the run
    failures,    \* requests.post calls of the run that failed
    posts,       \* str(job_id) of each requests.post call of the run
    notified,    \* str(job_id) of the requests.post calls of earlier runs
    fetches,     \* requests.get calls of the run
    debug,       \* debug_remoteok.json was written in the run
    runs,        \* invocations (or save_jobs calls) so far
    prevMatched  \* the argument of the previous save_jobs call

vars == <<pc, env, send, now, jobs, matched, new_jobs, sent_upto, csv, csv0, cursor,
          cursor0, attempts, failures, posts, notified, fetches, debug, runs,
          prevMatched>>

---------------------------------------------------------------------------
(* Bounds of the model *)

MaxRuns == 2
MaxFeed == 2
MaxCalls == 2
MaxIncoming == 2

---------------------------------------------------------------------------
(* Python values *)

NoneV == [k |-> "none", s |-> <<>>, n |-> 0]
StrV(s) == [k |-> "str", s |-> s, n |-> 0]
IntV(n) == [k |-> "int", s |-> <<>>, n |-> n]

\* bool(v): None, 0 and "" are false
Truthy(v) ==
    CASE v.k = "none" -> FALSE
      [] v.k = "str" -> v.s # <<>>
      [] v.k = "int" -> v.n # 0

\* a or b
PyOr(a, b) == IF Truthy(a) THEN a ELSE b

\* Texts of identifiers: the decimal digits of n behind z leading zeros, or
\* the placeholder no-id-<idx>.
NumText(n, z) == <<"n", n, z>>
NoIdText(idx) == <<"no-id", idx, 0>>
IsNumText(t) == t[1] = "n"

\* str(v) of an identifier
PyStr(v) == IF v.k = "int" THEN NumText(v.n, 0) ELSE v.s

\* Timestamp strings: an ISO-8601 text of instant e, the decimal text of e,
\* or text that is neither.
IsoStr(e) == StrV(<<"iso", e>>)
NumStr(e) == StrV(<<"num", e>>)
JunkStr == StrV(<<"junk", 0>>)
EmptyStr == StrV(<<>>)

---------------------------------------------------------------------------
(* str.lower() and substring containment on character sequences *)

UpperCase ==
    ("A" :> "a") @@ ("B" :> "b") @@ ("C" :> "c") @@ ("D" :> "d") @@
    ("E" :> "e") @@ ("F" :> "f") @@ ("G" :> "g") @@ ("H" :> "h") @@
    ("I" :> "i") @@ ("J" :> "j") @@ ("K" :> "k") @@ ("L" :> "l") @@
    ("M" :> "m") @@ ("N" :> "n") @@ ("O" :> "o") @@ ("P" :> "p") @@
    ("Q" :> "q") @@ ("R" :> "r") @@ ("S" :> "s") @@ ("T" :> "t") @@
    ("U" :> "u") @@ ("V" :> "v") @@ ("W" :> "w") @@ ("X" :> "x") @@
    ("Y" :> "y") @@ ("Z" :> "z")

Lower(s) ==
    [i \in 1..Len(s) |-> IF s[i] \in DOMAIN UpperCase THEN UpperCase[s[i]] ELSE s[i]]

\* t in s, for two str
InStr(t, s) ==
    \E i \in 0..(Len(s) - Len(t)) : SubSeq(s, i + 1, i + Len(t)) = t

\* t in xs, for a list xs
InList(t, xs) == \E i \in 1..Len(xs) : xs[i] = t

TAGS == <<
    <<"c","r","y","p","t","o">>,
    <<"b","l","o","c","k","c","h","a","i","n">>,
    <<"w","e","b","3">>,
    <<"b","i","t","c","o","i","n">>,
    <<"e","t","h","e","r","e","u","m">>,
    <<"d","e","f","i">>,
    <<"s","o","l","i","d","i","t","y">>,
    <<"s","m","a","r","t"," ","c","o","n","t","r","a","c","t">>,
    <<"n","f","t">>,
    <<"d","a","o">>,
    <<"c","r","y","p","t","o"," ","e","n","g","i","n","e","e","r">>,
    <<"b","l","o","c","k","c","h","a","i","n"," ","e","n","g","i","n","e","e","r">> >>

max_age_days == 1

---------------------------------------------------------------------------
(* safe_parse_date: [ok, e], the instant e when the value parses *)

ParseFail == [ok |-> FALSE, e |-> 0]
ParseOk(e) == [ok |-> TRUE, e |-> e]

\* "if not date_raw"
FalsyGuard(date_raw) == ~Truthy(date_raw)

safe_parse_date(date_raw) ==
    IF FalsyGuard(date_raw) THEN ParseFail
    ELSE IF date_raw.k = "str"
         THEN CASE date_raw.s[1] = "iso" -> ParseOk(date_raw.s[2])   \* fromisoformat
                [] date_raw.s[1] = "num" -> ParseOk(date_raw.s[2])   \* float(), fromtimestamp
                [] OTHER -> ParseFail
         ELSE ParseOk(date_raw.n)                                    \* float(), fromtimestamp

---------------------------------------------------------------------------
(* match_jobs *)

Remote == <<"R","e","m","o","t","e">>

\* a raw posting of the feed; a key the feed omits reads as None, and tags is
\* the list "job.get('tags') or []"
RawJob(id, position, company, tags, date, epoch) ==
    [id |-> id, position |-> position, company |-> company, tags |-> tags,
     date |-> date, epoch |-> epoch, created_at |-> NoneV,
     posting_date |-> NoneV, slug |-> NoneV]

\* job.get("id") or f"no-id-{idx}"
JobId(job, idx) == PyOr(job.id, StrV(NoIdText(idx)))

DateField(job) ==
    PyOr(PyOr(PyOr(job.date, job.epoch), job.created_at), job.posting_date)

\* [t.lower() for t in (job.get("tags") or [])]
TagsLower(job) == [i \in 1..Len(job.tags) |-> Lower(job.tags[i])]

StrOrEmpty(v) == IF Truthy(v) THEN v.s ELSE <<>>

\* "t in tags_lower" is membership in a list of str, not containment in a str
TagHitSubstring(t, tags_lower) ==
    \E i \in 1..Len(tags_lower) : InStr(t, tags_lower[i])
TagHit(t, tags_lower) == InList(t, tags_lower)

matched_flag(job) ==
    \E i \in 1..Len(TAGS) :
        \/ TagHit(TAGS[i], TagsLower(job))
        \/ InStr(TAGS[i], Lower(StrOrEmpty(job.position)))
        \/ InStr(TAGS[i], Lower(StrOrEmpty(job.company)))

Cutoff(t) == t - max_age_days

Recent(e, t, force_show_all) == force_show_all \/ e >= Cutoff(t)

MatchedRecord(job, idx, e) ==
    [job_id |-> JobId(job, idx),
     title |-> job.position,
     company |-> job.company,
     location |-> Remote,
     date_posted |-> e,
     link |-> PyStr(PyOr(job.slug, JobId(job, idx))),
     epoch |-> e]

\* what one iteration of the loop appends to matched
MatchOne(job, idx, t, force_show_all) ==
    LET parsed == safe_parse_date(DateField(job)) IN
    IF ~parsed.ok THEN <<>>
    ELSE IF Recent(parsed.e, t, force_show_all) /\ matched_flag(job)
         THEN << MatchedRecord(job, idx, parsed.e) >>
         ELSE <<>>

RECURSIVE MatchFrom(_, _, _, _)
MatchFrom(js, i, t, force_show_all) ==
    IF i > Len(js) THEN <<>>
    ELSE MatchOne(js[i], i - 1, t, force_show_all) \o MatchFrom(js, i + 1, t, force_show_all)

match_jobs(js, t, force_show_all) == MatchFrom(js, 1, t, force_show_all)

---------------------------------------------------------------------------
(* The CSV ledger as pandas reads and writes it *)

NewColumns == <<"job_id", "title", "company", "location", "date_posted", "link", "epoch">>

NoFile == [exists |-> FALSE, columns |-> <<>>, rows |-> <<>>]

\* pd.DataFrame(jobs): a frame row is a matched record and whether its epoch
\* cell holds a number (NaN otherwise)
FrameRow(j) == [job_id |-> j.job_id, title |-> j.title, company |-> j.company,
                location |-> j.location, date_posted |-> j.date_posted,
                link |-> j.link, epoch |-> j.epoch, has_epoch |-> TRUE]

DataFrame(js) == [i \in 1..Len(js) |-> FrameRow(js[i])]

\* pd.read_csv infers the type of a column from all of its cells: a job_id
\* column of decimal texts only is read as integers (leading zeros are lost),
\* any other as the texts themselves.  The file holds no epoch column.
AllNumeric(rows) == \A i \in 1..Len(rows) : IsNumText(rows[i].job_id)

ReadId(t, numeric) == IF numeric THEN IntV(t[2]) ELSE StrV(t)

read_csv(file) ==
    [i \in 1..Len(file.rows) |->
        [job_id |-> ReadId(file.rows[i].job_id, AllNumeric(file.rows)),
         title |-> file.rows[i].title, company |-> file.rows[i].company,
         location |-> file.rows[i].location,
         date_posted |-> file.rows[i].date_posted,
         link |-> file.rows[i].link, epoch |-> 0, has_epoch |-> FALSE]]

\* set(df_existing["job_id"].astype(str))
ExistingIds(file) ==
    IF file.exists
    THEN {PyStr(read_csv(file)[i].job_id) : i \in 1..Len(file.rows)}
    ELSE {}

\* drop_duplicates(subset=["job_id"], keep=...): values are compared as pandas
\* hashes them, so the integer 1 and the str "1" are different keys
KeepFirst(rows, i) == \A j \in 1..(i - 1) : rows[j].job_id # rows[i].job_id

RECURSIVE DropFrom(_, _)
DropFrom(rows, i) ==
    IF i > Len(rows) THEN <<>>
    ELSE (IF KeepFirst(rows, i) THEN << rows[i] >> ELSE <<>>) \o DropFrom(rows, i + 1)

drop_duplicates(rows) == DropFrom(rows, 1)

\* sort_values("epoch", ascending=False): the rows with a number, larger
\* first and equal ones in their order, then the NaN rows in their order
RECURSIVE InsertDesc(_, _)
InsertDesc(r, sorted) ==
    IF sorted = <<>> THEN << r >>
    ELSE IF Head(sorted).epoch >= r.epoch
         THEN << Head(sorted) >> \o InsertDesc(r, Tail(sorted))
         ELSE << r >> \o sorted

RECURSIVE SortDescFrom(_, _, _)
SortDescFrom(rows, i, acc) ==
    IF i > Len(rows) THEN acc
    ELSE SortDescFrom(rows, i + 1, InsertDesc(rows[i], acc))

HasEpoch(r) == r.has_epoch
LacksEpoch(r) == ~r.has_epoch

sort_values(rows) ==
    SortDescFrom(SelectSeq(rows, HasEpoch), 1, <<>>) \o SelectSeq(rows, LacksEpoch)

\* the columns of pd.concat([df_existing, df_new]): those of the file, then
\* the new ones it lacks
NotIn(cols, c) == \A i \in 1..Len(cols) : cols[i] # c

ConcatColumns(cols) == cols \o SelectSeq(NewColumns, LAMBDA c : NotIn(cols, c))

DropColumn(cols, name) == SelectSeq(cols, LAMBDA c : c # name)

\* df.to_csv(filename, index=False) after drop(columns=["epoch"])
FileRow(r) == [job_id |-> PyStr(r.job_id), title |-> r.title, company |-> r.company,
               location |-> r.location, date_posted |-> r.date_posted,
               link |-> r.link]

to_csv(rows, cols) ==
    [exists |-> TRUE, columns |-> cols, rows |-> [i \in 1..Len(rows) |-> FileRow(rows[i])]]

\* new_jobs = [j for j in jobs if str(j["job_id"]) not in existing_ids]
NewJobs(js, file) ==
    SelectSeq(js, LAMBDA j : PyStr(j.job_id) \notin ExistingIds(file))

\* df_combined before the sort
Combined(js, file) ==
    IF file.exists
    THEN drop_duplicates(read_csv(file) \o DataFrame(js))
    ELSE drop_duplicates(DataFrame(js))

CombinedColumns(file) == IF file.exists THEN ConcatColumns(file.columns) ELSE NewColumns

Persisted(js, file) ==
    IF ~NotIn(CombinedColumns(file), "epoch")
    THEN to_csv(sort_values(Combined(js, file)), DropColumn(CombinedColumns(file), "epoch"))
    ELSE to_csv(Combined(js, file), CombinedColumns(file))

\* save_jobs: what it returns and the file it leaves
save_jobs(js, file) ==
    IF js = <<>>
    THEN [ret |-> <<>>, file |-> file]
    ELSE [ret |-> NewJobs(js, file), file |-> Persisted(js, file)]

---------------------------------------------------------------------------
(* The inputs the model draws from *)

SeqsUpTo(S, n) == UNION {[1..m -> S] : m \in 0..n}

Range(f) == {f[i] : i \in DOMAIN f}

Dao == <<"d","a","o">>
Chef == <<"C","h","e","f">>
Acme == <<"A","c","m","e">>
DaoLabs == <<"D","A","O"," ","L","a","b","s">>
Web3Dev == <<"W","e","b","3","D","e","v">>
Web3 == <<"w","e","b","3">>
Golang == <<"g","o","l","a","n","g">>
NFT == <<"N","F","T">>
SolidityEngineer ==
    <<"S","o","l","i","d","i","t","y"," ","E","n","g","i","n","e","e","r">>

\* os.environ: SEND_TELEGRAM == "1", TELEGRAM_TOKEN set and not empty,
\* CHAT_ID unset or empty ("none"), a decimal ("num") or any other text such
\* as a channel name ("name"), FORCE_SHOW_ALL == "1"
Envs ==
    [SEND_TELEGRAM : BOOLEAN, TELEGRAM_TOKEN : BOOLEAN,
     CHAT_ID : {"none", "num", "name"}, FORCE_SHOW_ALL : BOOLEAN]

NoEnv == [SEND_TELEGRAM |-> FALSE, TELEGRAM_TOKEN |-> FALSE,
          CHAT_ID |-> "none", FORCE_SHOW_ALL |-> FALSE]

NoCursor == -1

\* data[0] of the feed: the legal notice, which has none of a posting's keys
Meta == RawJob(NoneV, NoneV, NoneV, <<>>, NoneV, NoneV)

\* the postings of the feed in Spec: one with an int id and a keyword in
\* its title, one with a str id, a keyword among its tags and its instant
\* under the key epoch (it passes the cutoff of the first two runs only)
Catalog ==
    { RawJob(IntV(1), StrV(Dao), StrV(Acme), <<>>, IntV(3), NoneV),
      RawJob(StrV(NumText(2, 0)), StrV(Chef), StrV(Acme), << NFT >>, IntV(0), IntV(2)) }

\* the instant of the first run; each later run is a day after the one before
FirstRun == 2

\* what requests.get(...).json() gives: an exception on the way (network
\* failure, non-2xx status, malformed JSON), a JSON value that is no list, or
\* a list
Responses ==
    { [kind |-> "error", data |-> <<>>], [kind |-> "other", data |-> <<>>],
      [kind |-> "list", data |-> <<>>] }
    \cup { [kind |-> "list", data |-> << Meta >> \o js] : js \in SeqsUpTo(Catalog, MaxFeed) }

\* the postings save_jobs is called with in SpecLedger: every kind of job_id
\* (an int, its decimal text, a text with a leading zero, a missing id), two
\* instants
LedgerCatalog ==
    { RawJob(id, StrV(Dao), StrV(Acme), <<>>, IntV(e), NoneV) :
        id \in {IntV(1), IntV(2), StrV(NumText(3, 0)), StrV(NumText(1, 1)), NoneV},
        e \in {1, 2} }

LedgerNow == 2

\* the raw postings match_jobs is applied to in SpecPure
PureJobs ==
    { RawJob(IntV(42), position, company, tags, date, epoch) :
        position \in {NoneV, StrV(SolidityEngineer), StrV(Chef)},
        company \in {NoneV, StrV(Acme), StrV(DaoLabs)},
        tags \in {<<>>, << Web3Dev >>, << Web3 >>, << Golang, NFT >>},
        date \in {NoneV, IntV(0), IntV(2), NumStr(0), NumStr(2), IsoStr(2),
                  JunkStr, EmptyStr},
        epoch \in {NoneV, IntV(1)} }

PureNows == {2, 4}

---------------------------------------------------------------------------
(* Module-level configuration, fetch_remoteok_raw, send_telegram_message *)

\* lines 27 and 41-43: SEND_TELEGRAM after the safety check
SendEnabledUnchecked(e) == e.SEND_TELEGRAM
SendEnabled(e) ==
    e.SEND_TELEGRAM /\ ~(~e.TELEGRAM_TOKEN \/ e.CHAT_ID = "none")

fetch_remoteok_raw(r) ==
    IF r.kind = "list"
    THEN IF Len(r.data) > 1 THEN Tail(r.data) ELSE r.data
    ELSE <<>>

\* main: "if not jobs"
NoJobsIgnored(js) == FALSE
NoJobs(js) == js = <<>>

---------------------------------------------------------------------------
(* Spec: the script, run after run *)

Blank ==
    /\ send = FALSE /\ now = 0
    /\ jobs = <<>> /\ matched = <<>> /\ new_jobs = <<>> /\ sent_upto = 0
    /\ csv = NoFile /\ csv0 = NoFile
    /\ cursor = NoCursor /\ cursor0 = NoCursor
    /\ attempts = <<>> /\ failures = 0 /\ posts = <<>> /\ notified = {}
    /\ fetches = 0 /\ debug = FALSE /\ runs = 0 /\ prevMatched = <<>>

Init == pc = "idle" /\ env = NoEnv /\ Blank

\* a new process: the configuration is read, the fetch is issued
Begin(e, t, r) ==
    /\ pc = "idle" /\ runs < MaxRuns
    /\ t = FirstRun + runs
    /\ runs' = runs + 1
    /\ env' = e /\ send' = SendEnabled(e) /\ now' = t
    /\ jobs' = fetch_remoteok_raw(r) /\ fetches' = 1
    /\ UNCHANGED <<csv0, cursor0, attempts, failures, posts, sent_upto, notified,
                   prevMatched>>

\* main, lines 219-222: nothing came back
MainNoJobs ==
    \E e \in Envs, t \in FirstRun..(FirstRun + MaxRuns), r \in Responses :
        /\ Begin(e, t, r)
        /\ NoJobs(jobs')
        /\ pc' = "aborted"
        /\ UNCHANGED <<matched, new_jobs, debug, csv, cursor>>

\* main, lines 219-234: debug_dump, match_jobs, save_jobs
MainSave ==
    \E e \in Envs, t \in FirstRun..(FirstRun + MaxRuns), r \in Responses :
        LET m == match_jobs(fetch_remoteok_raw(r), t, e.FORCE_SHOW_ALL)
            saved == save_jobs(m, csv)
        IN  /\ Begin(e, t, r)
            /\ ~NoJobs(jobs')
            /\ debug' = TRUE
            /\ matched' = m
            /\ new_jobs' = saved.ret
            /\ csv' = saved.file
            /\ pc' = "notify"
            /\ UNCHANGED cursor

Notifying == pc = "notify" /\ sent_upto < Len(new_jobs)

Called == Append(attempts, PyStr(new_jobs[sent_upto + 1].job_id))

\* send_telegram_message with SEND_TELEGRAM off: the message is printed
NotifyPrint ==
    /\ Notifying /\ ~send
    /\ attempts' = Called /\ sent_upto' = sent_upto + 1
    /\ UNCHANGED <<pc, env, send, now, jobs, matched, new_jobs, csv, csv0, cursor,
                   cursor0, failures, posts, notified, fetches, debug, runs,
                   prevMatched>>

\* send_telegram_message, line 52: int(CHAT_ID) is evaluated before the try,
\* and the ValueError of a CHAT_ID that is no decimal ends main
NotifyRaise ==
    /\ Notifying /\ send /\ env.CHAT_ID # "num"
    /\ attempts' = Called /\ pc' = "crashed"
    /\ UNCHANGED <<env, send, now, jobs, matched, new_jobs, sent_upto, csv, csv0,
                   cursor, cursor0, failures, posts, notified, fetches, debug,
                   runs, prevMatched>>

\* send_telegram_message, lines 53-58: the post, delivered or failed (and the
\* failure printed)
NotifyPost ==
    \E ok \in BOOLEAN :
        /\ Notifying /\ send /\ env.CHAT_ID = "num"
        /\ attempts' = Called /\ sent_upto' = sent_upto + 1
        /\ posts' = Append(posts, PyStr(new_jobs[sent_upto + 1].job_id))
        /\ failures' = IF ok THEN failures ELSE failures + 1
        /\ UNCHANGED <<pc, env, send, now, jobs, matched, new_jobs, csv, csv0,
                       cursor, cursor0, notified, fetches, debug, runs,
                       prevMatched>>

\* main, lines 243-250: the last-run file
PersistLastRun ==
    /\ pc = "notify" /\ sent_upto = Len(new_jobs)
    /\ cursor' = now /\ pc' = "done"
    /\ UNCHANGED <<env, send, now, jobs, matched, new_jobs, sent_upto, csv, csv0,
                   cursor0, attempts, failures, posts, notified, fetches, debug,
                   runs, prevMatched>>

\* the process ends and its memory with it; the files stay
Exit ==
    /\ pc \in {"aborted", "done", "crashed"}
    /\ pc' = "idle"
    /\ env' = NoEnv /\ send' = FALSE
    /\ jobs' = <<>> /\ matched' = <<>> /\ new_jobs' = <<>> /\ sent_upto' = 0
    /\ csv0' = csv /\ cursor0' = cursor
    /\ notified' = notified \cup Range(posts)
    /\ attempts' = <<>> /\ failures' = 0 /\ posts' = <<>>
    /\ fetches' = 0 /\ debug' = FALSE
    /\ UNCHANGED <<now, csv, cursor, runs, prevMatched>>

Next ==
    \/ MainNoJobs
    \/ MainSave
    \/ NotifyPrint
    \/ NotifyRaise
    \/ NotifyPost
    \/ PersistLastRun
    \/ Exit

Spec == Init /\ [][Next]_vars

---------------------------------------------------------------------------
(* SpecLedger: save_jobs, called again and again on one file *)

InitLedger == pc = "ledger" /\ env = NoEnv /\ Blank

SaveCall ==
    \E feed \in SeqsUpTo(LedgerCatalog, MaxIncoming) :
        /\ pc = "ledger" /\ runs < MaxCalls
        /\ runs' = runs + 1
        /\ jobs' = feed
        /\ matched' = match_jobs(feed, LedgerNow, TRUE)
        /\ prevMatched' = matched
        /\ csv0' = csv
        /\ new_jobs' = save_jobs(match_jobs(feed, LedgerNow, TRUE), csv).ret
        /\ csv' = save_jobs(match_jobs(feed, LedgerNow, TRUE), csv).file
        /\ UNCHANGED <<pc, env, send, now, sent_upto, cursor, cursor0, attempts,
                       failures, posts, notified, fetches, debug>>

NextLedger == SaveCall

SpecLedger == InitLedger /\ [][NextLedger]_vars

---------------------------------------------------------------------------
(* SpecPure: match_jobs on one raw posting *)

InitPure ==
    /\ Blank
    /\ pc = "pure"
    /\ env \in {e \in Envs : ~e.SEND_TELEGRAM /\ ~e.TELEGRAM_TOKEN /\ e.CHAT_ID = "none"}

Pose ==
    \E j \in PureJobs, t \in PureNows :
        /\ pc = "pure"
        /\ jobs' = << j >> /\ now' = t /\ pc' = "posed"
        /\ UNCHANGED <<env, send, matched, new_jobs, sent_upto, csv, csv0, cursor,
                       cursor0, attempts, failures, posts, notified, fetches,
                       debug, runs, prevMatched>>

Classify ==
    /\ pc = "posed"
    /\ matched' = match_jobs(jobs, now, env.FORCE_SHOW_ALL)
    /\ pc' = "classified"
    /\ UNCHANGED <<env, send, now, jobs, new_jobs, sent_upto, csv, csv0, cursor,
                   cursor0, attempts, failures, posts, notified, fetches, debug,
                   runs, prevMatched>>

NextPure == Pose \/ Classify

SpecPure == InitPure /\ [][NextPure]_vars

---------------------------------------------------------------------------
(* What the claims are stated with *)

\* the job_id cells of a CSV file, and str(job_id) of a list of records
FileIds(file) == {file.rows[i].job_id : i \in 1..Len(file.rows)}
RecordIds(js) == {PyStr(js[i].job_id) : i \in 1..Len(js)}

\* a matched record as a row of the CSV file
AsFileRow(j) == FileRow(FrameRow(j))

OneRowPerId(file) ==
    \A i, j \in 1..Len(file.rows) :
        i # j => file.rows[i].job_id # file.rows[j].job_id

NoRepeat(xs) == \A i, j \in 1..Len(xs) : i # j => xs[i] # xs[j]

\* the posting SpecPure classified, and whether it passes the recency filter
Posting == jobs[1]
PassesRecency ==
    /\ safe_parse_date(DateField(Posting)).ok
    /\ \/ env.FORCE_SHOW_ALL
       \/ safe_parse_date(DateField(Posting)).e >= now - 1

KeywordInTitleOrCompany(kw) ==
    \/ InStr(kw, Lower(StrOrEmpty(Posting.position)))
    \/ InStr(kw, Lower(StrOrEmpty(Posting.company)))

CredentialsMissing == ~env.TELEGRAM_TOKEN \/ env.CHAT_ID = "none"

InRun == pc \in {"aborted", "notify", "done", "crashed"}

---------------------------------------------------------------------------
(* SpecLedger: the claims about save_jobs *)

\* C1: save_jobs returns as novel exactly the incoming postings whose id was
\* absent from the ledger as it was before the merge, in the order of incoming.
C1_NovelIsIncomingMinusLedger ==
    (pc = "ledger" /\ runs >= 1) =>
        new_jobs = SelectSeq(matched, LAMBDA j : PyStr(j.job_id) \notin FileIds(csv0))

\* C2: the merged ledger is the union of the old ledger and incoming with
\* exactly one row per id, and for an id of both the row kept is an incoming
\* record.
C2_OneRowPerIdIncomingWins ==
    (pc = "ledger" /\ runs >= 1 /\ matched # <<>>) =>
        /\ OneRowPerId(csv)
        /\ FileIds(csv) = FileIds(csv0) \cup RecordIds(matched)
        /\ \A i \in 1..Len(matched) :
               PyStr(matched[i].job_id) \in FileIds(csv0) =>
                   \E r \in 1..Len(csv.rows), j \in 1..Len(matched) :
                       /\ csv.rows[r].job_id = PyStr(matched[i].job_id)
                       /\ csv.rows[r] = AsFileRow(matched[j])

\* C3: save_jobs called a second time with the same incoming leaves the ledger
\* as it was (the same rows, one per id) and returns nothing as novel.
C3_SecondMergeChangesNothing ==
    (pc = "ledger" /\ runs >= 2 /\ matched = prevMatched) =>
        /\ new_jobs = <<>>
        /\ Range(csv.rows) = Range(csv0.rows)
        /\ OneRowPerId(csv)

\* C9: the persisted ledger is ordered by posted_at descending over all of its
\* rows, and epoch is not one of its columns.
C9_LedgerSortedByDateDescending ==
    (pc = "ledger" /\ csv.exists) =>
        /\ \A i, j \in 1..Len(csv.rows) :
               i < j => csv.rows[i].date_posted >= csv.rows[j].date_posted
        /\ NotIn(csv.columns, "epoch")

---------------------------------------------------------------------------
(* SpecPure: the claims about match_jobs and safe_parse_date *)

\* C4, as stated: a posting that passes the recency filter is admitted iff some
\* keyword is a case-insensitive substring of a tag, the title or the company.
C4_AdmittedIffKeywordSubstring ==
    (pc = "classified" /\ PassesRecency) =>
        (matched # <<>> <=>
            \E i \in 1..Len(TAGS) :
                \/ \E g \in 1..Len(Posting.tags) : InStr(TAGS[i], Lower(Posting.tags[g]))
                \/ KeywordInTitleOrCompany(TAGS[i]))

\* C4, as amended: a posting that passes the recency filter is admitted iff some
\* keyword equals a tag case-insensitively, or is a case-insensitive substring
\* of the title or of the company.
C4_AdmittedIffKeywordIsTagOrInText ==
    (pc = "classified" /\ PassesRecency) =>
        (matched # <<>> <=>
            \E i \in 1..Len(TAGS) :
                \/ \E g \in 1..Len(Posting.tags) : Lower(Posting.tags[g]) = TAGS[i]
                \/ KeywordInTitleOrCompany(TAGS[i]))

\* C4's case: a recent posting admitted for its tag alone
C4_Witness ==
    /\ pc = "classified" /\ PassesRecency /\ ~env.FORCE_SHOW_ALL
    /\ Posting.tags = << Golang, NFT >>
    /\ Posting.position = StrV(Chef) /\ Posting.company = StrV(Acme)
    /\ matched # <<>>

\* C8: a numeric epoch e, or its decimal text, under the key date parses to the
\* instant e (e = 0 included), and the record is not skipped as unparseable.
C8_EpochParsesToInstant ==
    pc = "classified" =>
        \A e \in {0, 2} :
            Posting.date \in {IntV(e), NumStr(e)} =>
                /\ safe_parse_date(Posting.date) = ParseOk(e)
                /\ safe_parse_date(DateField(Posting)).ok

---------------------------------------------------------------------------
(* Spec: the claims about main *)

\* C5: when the fetch yields no postings the run ends cleanly and nothing is
\* written: the ledger and the last-run file are as before, nothing is
\* dispatched, the process does not fail.
C5_EmptyFetchChangesNothing ==
    (InRun /\ jobs = <<>>) =>
        /\ pc = "aborted"
        /\ csv = csv0 /\ cursor = cursor0
        /\ attempts = <<>> /\ posts = <<>>
        /\ ~debug

\* C5's case: an empty fetch in a run that found a ledger and a last-run file
C5_Witness ==
    /\ pc = "aborted" /\ jobs = <<>> /\ fetches = 1
    /\ csv0.exists /\ cursor0 # NoCursor
    /\ send

\* C6: no failure of a notification reaches main: every novel record is
\* dispatched and the last-run file is written whatever the outcomes.
C6_NotificationFailureSwallowed ==
    /\ pc # "crashed"
    /\ pc = "done" => (Len(attempts) = Len(new_jobs) /\ cursor = now)

C10_AtMostOneNotificationPerJobId ==
    /\ NoRepeat(posts)
    /\ \A i \in 1..Len(posts) : posts[i] \notin notified

===========================================================================
